---- MODULE Spec2Model ----
(***************************************************************************)
(* Model of openrouter-gui.py: the streaming worker OpenRouterAPIThread    *)
(* (run / stop) and the MainWindow handlers that create, observe and stop  *)
(* it.  Worker steps are split at every access to state shared with the    *)
(* foreground thread (_stop_requested, _response, MainWindow.messages) and *)
(* at every signal emission, so that all interleavings with the foreground *)
(* thread are explored.  Signals emitted by the worker are queued to the   *)
(* foreground thread (Qt queued connection) and handled there in order.    *)
(***************************************************************************)
EXTENDS Naturals, Sequences, FiniteSets, TLC

(* ------------------------------ bounds -------------------------------- *)
\* worker threads created by send_message in one run of the application
MaxSessions == 2
\* response lines one transport delivers, single-session specification
MaxLines == 3
\* response lines one transport delivers, application specification
MaxAppLines == 1
\* files held in the pending attachment list
MaxFiles == 1
\* messages of a history handed to a thread on its own
MaxHistory == 2
\* attachments handed to a thread on its own
MaxPayloadFiles == 3
\* requests.get calls of the model info manager
MaxGets == 1
\* calls of stop() a caller makes on one session
MaxStops == 3

Sessions == 1..MaxSessions

(* --------------------------- response lines --------------------------- *)
\* A decoded JSON document of a stream line, by the parts run() looks at.
\*   jtype   : "object" | "number"        (json.loads may return any value)
\*   choices : "absent" | "empty" | "one" ('choices' in d, len(d['choices']))
\*   delta   : "absent" | "object"        (choices[0].get('delta', {}))
\*   content : "absent" | "null" | "str"  ('content' in delta, its value)
Doc(jtype, choices, delta, content, text) ==
    [jtype |-> jtype, choices |-> choices, delta |-> delta,
     content |-> content, text |-> text]

NoDoc == Doc("none", "absent", "absent", "absent", "")

\* A line as response.iter_lines() yields it.
\*   prefix : ""  (the empty line b''), "data: ", or another field (": ")
\*   form   : what follows the prefix: "empty", "done" ([DONE], possibly
\*            surrounded by blanks), "malformed" (json.loads raises
\*            JSONDecodeError) or "json" (json.loads returns doc)
Line(prefix, form, doc) == [prefix |-> prefix, form |-> form, doc |-> doc]

BlankLine     == Line("", "empty", NoDoc)
CommentLine   == Line(": ", "empty", NoDoc)
DoneLine      == Line("data: ", "done", NoDoc)
MalformedLine == Line("data: ", "malformed", NoDoc)
DeltaLine(t)  == Line("data: ", "json", Doc("object", "one", "object", "str", t))
RoleLine      == Line("data: ", "json", Doc("object", "one", "object", "absent", ""))
NoDeltaLine   == Line("data: ", "json", Doc("object", "one", "absent", "absent", ""))
NullLine      == Line("data: ", "json", Doc("object", "one", "object", "null", ""))
EmptyChoicesLine == Line("data: ", "json", Doc("object", "empty", "absent", "absent", ""))
NoChoicesLine == Line("data: ", "json", Doc("object", "absent", "absent", "absent", ""))
NumberLine    == Line("data: ", "json", Doc("number", "absent", "absent", "absent", ""))

NoLine == Line("", "none", NoDoc)

\* lines a transport may deliver in the single-session specification
AllLines ==
    {BlankLine, CommentLine, DoneLine, MalformedLine, DeltaLine("a"),
     DeltaLine("b"), RoleLine, NullLine, EmptyChoicesLine, NoChoicesLine,
     NumberLine}

\* lines a transport may deliver in the application specification
AppLines == {DeltaLine("a")}

StatusCodes == {200, 401}
ErrorBody == "unauthorized"

(* ------------------------------ events -------------------------------- *)
\* A signal emission: message_chunk_received (chunk), message_received
\* (complete) or error_occurred (error).  An API error carries the status
\* code and the response body; an exception error carries str(e) and code 0.
Event(kind, text, code) == [kind |-> kind, text |-> text, code |-> code]

(* ---------------------------- attachments ----------------------------- *)
\* AttachedFile: mime_type as guessed from the path, the file's bytes, and
\* whether open() succeeds when the worker encodes it.
AttachedFile(name, mime, data, readable) ==
    [file_name |-> name, mime_type |-> mime, data |-> data, readable |-> readable]

FileChoices ==
    {AttachedFile("p.png", "image/png", "xyz", TRUE),
     AttachedFile("q.png", "image/png", "xyz", FALSE),
     AttachedFile("r.jpg", "image/jpeg", "xyz", TRUE),
     AttachedFile("d.pdf", "application/pdf", "xyz", TRUE)}

\* files the user attaches in the application specification
AppFileChoices == {AttachedFile("p.png", "image/png", "xyz", TRUE)}

\* text of the user turn when only files are sent (line 1408)
DefaultImagePrompt == "describe the image"

\* what the input box holds when a send is triggered: toPlainText()
TextChoices == {"", "hi", "  "}

VARIABLES
    \* ---- OpenRouterAPIThread, one per session ----
    pc,              \* position of run(); "unborn" before construction
    stop_requested,  \* self._stop_requested
    response,        \* self._response: "None" or "set"
    conn,            \* the HTTP connection: "none", "open" or "closed"
    posts,           \* requests.post calls issued
    status,          \* response.status_code (0 before a response)
    remaining,       \* lines the transport has still to deliver
    cur,             \* the line iter_lines() yielded last
    received,        \* lines iter_lines() has yielded, in order
    full_message,    \* the local full_message of run()
    emitted,         \* signals emitted, in order
    request,         \* api_messages of the payload sent
    files,           \* self.attached_files of the thread
    exc,             \* the exception caught at line 816, "none" if none
    cancelled_in,    \* session state when stop() first set the flag
    stop_calls,      \* calls of stop() made on the session by its caller
    \* ---- MainWindow ----
    messages,        \* self.messages (shared with the running thread)
    api_thread,      \* self.api_thread, 0 for None
    nthreads,        \* threads constructed so far
    api_key,         \* self.config['api_key']
    text_input,      \* text of the input box
    attached_files,  \* self.file_list.attached_files
    current_ai_bubble, \* the streaming assistant bubble, NoBubble for None
    send_btn,        \* visibility of the send button
    stop_btn,        \* visibility of the stop button
    progress_bar,    \* visibility of the progress bar
    dialog,          \* the message box shown last
    queue,           \* signals queued to the foreground thread
    fg,              \* position of the foreground thread
    \* ---- ModelInfoManager (MainWindow.model_info_manager) and its world ----
    mgr_key,         \* self.api_key of the manager
    cache,           \* self.cache: model id -> entry
    cache_file,      \* what MODEL_CACHE_FILE holds
    now,             \* time.time()
    gets,            \* requests.get calls issued so far
    ret,             \* the last call of get_model_info and what it returned
    \* ---- the configuration outside the process ----
    config_file,     \* what CONFIG_FILE holds
    keyring,         \* the password of KEYRING_SERVICE / KEYRING_USERNAME, "" if none
    config_op        \* the method that wrote the configuration last

thread_vars ==
    <<pc, stop_requested, response, conn, posts, status, remaining, cur,
      received, full_message, emitted, request, files, exc, cancelled_in, stop_calls>>

window_vars ==
    <<messages, api_thread, nthreads, api_key, text_input, attached_files,
      current_ai_bubble, send_btn, stop_btn, progress_bar, dialog>>

cache_vars == <<mgr_key, cache, cache_file, now, gets, ret>>

config_vars == <<config_file, keyring, config_op>>

vars == <<thread_vars, window_vars, queue, fg, cache_vars, config_vars>>

(* ------------------- OpenRouterAPIThread.run: helpers ------------------ *)
\* `if line:` (line 793): the empty line b'' is falsy
LineTruthy(line) == ~(line.prefix = "" /\ line.form = "empty")

\* line.startswith('data: ') (line 795)
StartsWithData(line) == line.prefix = "data: "

\* json_str.strip() == '[DONE]' (line 797)
IsDoneMarker(line) == line.form = "done"

\* json.loads(json_str) raises JSONDecodeError (lines 800, 807)
JsonDecodeFails(line) == line.form \in {"malformed", "empty"}

\* A variant of DeltaOutcome that indexes chunk_data['choices'] without the
\* membership test of line 801, so that a document without it raises.
DeltaOutcomeRequiresChoices(doc) ==
    IF doc.jtype # "object" THEN [act |-> "raise", text |-> ""]
    ELSE IF doc.choices = "absent" THEN [act |-> "raise", text |-> ""]
    ELSE IF doc.choices = "empty" THEN [act |-> "skip", text |-> ""]
    ELSE IF doc.delta = "absent" \/ doc.content = "absent"
         THEN [act |-> "skip", text |-> ""]
    ELSE IF doc.content = "null" THEN [act |-> "raise", text |-> ""]
    ELSE [act |-> "chunk", text |-> doc.text]

\* Lines 801-806 on a decoded document: what the try block does.
\*   'choices' in chunk_data raises TypeError on a number;
\*   full_message += content raises TypeError when content is null.
DeltaOutcome(doc) ==
    IF doc.jtype # "object" THEN [act |-> "raise", text |-> ""]
    ELSE IF doc.choices = "absent" THEN [act |-> "skip", text |-> ""]
    ELSE IF doc.choices = "empty" THEN [act |-> "skip", text |-> ""]
    ELSE IF doc.delta = "absent" \/ doc.content = "absent"
         THEN [act |-> "skip", text |-> ""]
    ELSE IF doc.content = "null" THEN [act |-> "raise", text |-> ""]
    ELSE [act |-> "chunk", text |-> doc.text]

\* A variant of LineOutcome whose JSONDecodeError handler breaks out of the
\* loop instead of continuing.
LineOutcomeStopsAtMalformed(line) ==
    IF ~LineTruthy(line) THEN [act |-> "skip", text |-> ""]
    ELSE IF ~StartsWithData(line) THEN [act |-> "skip", text |-> ""]
    ELSE IF IsDoneMarker(line) THEN [act |-> "break", text |-> ""]
    ELSE IF JsonDecodeFails(line) THEN [act |-> "break", text |-> ""]
    ELSE DeltaOutcome(line.doc)

\* A variant of LineOutcome without the [DONE] test of line 797.
LineOutcomeIgnoresDone(line) ==
    IF ~LineTruthy(line) THEN [act |-> "skip", text |-> ""]
    ELSE IF ~StartsWithData(line) THEN [act |-> "skip", text |-> ""]
    ELSE IF IsDoneMarker(line) THEN [act |-> "skip", text |-> ""]
    ELSE IF JsonDecodeFails(line) THEN [act |-> "skip", text |-> ""]
    ELSE DeltaOutcome(line.doc)

\* Lines 793-808: the body of the loop for one line, after the stop check.
LineOutcome(line) ==
    IF ~LineTruthy(line) THEN [act |-> "skip", text |-> ""]
    ELSE IF ~StartsWithData(line) THEN [act |-> "skip", text |-> ""]
    ELSE IF IsDoneMarker(line) THEN [act |-> "break", text |-> ""]
    ELSE IF JsonDecodeFails(line) THEN [act |-> "skip", text |-> ""]
    ELSE DeltaOutcome(line.doc)

(* -------------------- payload construction (728-766) ------------------- *)
\* A variant of is_image that takes every attachment for an image.
is_imageAnyFile(f) == TRUE

\* AttachedFile.is_image: mime_type.startswith('image/')
is_image(f) == f.mime_type \in {"image/png", "image/jpeg"}

\* base64.b64encode of the file's bytes
B64(data) == IF data = "xyz" THEN "eHl6" ELSE ""

\* AttachedFile.get_base64_content: "" when the file cannot be read
get_base64_content(f) == IF f.readable THEN B64(f.data) ELSE ""

Part(type, text, url) == [type |-> type, text |-> text, url |-> url]

RECURSIVE ImageParts(_)
ImageParts(fs) ==
    IF fs = <<>> THEN <<>>
    ELSE LET f == Head(fs)
             b == get_base64_content(f)
             here == IF is_image(f) /\ b # ""
                     THEN <<Part("image_url", "",
                                 "data:" \o f.mime_type \o ";base64," \o b)>>
                     ELSE <<>>
         IN here \o ImageParts(Tail(fs))

\* content of one serialized message: a plain string or an array of parts
Plain(text) == [multipart |-> FALSE, text |-> text, parts |-> <<>>]

\* A variant of LastUserContent that sends the array as soon as it holds one
\* part (len(content) > 0 at line 759).
LastUserContentArrayForOne(msg, fs) ==
    LET textpart == IF msg.content # "" THEN <<Part("text", msg.content, "")>>
                    ELSE <<>>
        content == textpart \o ImageParts(fs)
    IN IF Len(content) > 0
       THEN [multipart |-> TRUE, text |-> "", parts |-> content]
       ELSE Plain(msg.content)

\* lines 734-760: the content of the last user message
LastUserContent(msg, fs) ==
    LET textpart == IF msg.content # "" THEN <<Part("text", msg.content, "")>>
                    ELSE <<>>
        content == textpart \o ImageParts(fs)
    IN IF Len(content) > 1
       THEN [multipart |-> TRUE, text |-> "", parts |-> content]
       ELSE Plain(msg.content)

\* A variant of BuildApiMessages without the `i == len(self.messages) - 1`
\* test of line 732: every user message gets the attachments.
BuildApiMessagesEveryUser(msgs, fs) ==
    [i \in 1..Len(msgs) |->
        IF msgs[i].role = "user"
        THEN [role |-> msgs[i].role, content |-> LastUserContent(msgs[i], fs)]
        ELSE [role |-> msgs[i].role, content |-> Plain(msgs[i].content)]]

\* lines 728-766: api_messages
BuildApiMessages(msgs, fs) ==
    [i \in 1..Len(msgs) |->
        IF msgs[i].role = "user" /\ i = Len(msgs)
        THEN [role |-> msgs[i].role, content |-> LastUserContent(msgs[i], fs)]
        ELSE [role |-> msgs[i].role, content |-> Plain(msgs[i].content)]]

(* ------------------------- session bookkeeping ------------------------- *)
IdlePcs       == {"start", "build", "precheck", "post"}
RequestingPcs == {"posting", "errcheck", "emit_error"}
StreamingPcs  == {"iter", "loopcheck", "process", "endcheck", "emit_complete"}
FailingPcs    == {"exccheck", "emit_exc"}

\* the state of the session: Idle until the POST is issued, then Requesting
\* until a 200 status has been seen, then Streaming; Terminal once run()
\* has returned
Phase(s) ==
    IF pc[s] = "start" THEN "NotStarted"
    ELSE IF pc[s] \in IdlePcs THEN "Idle"
    ELSE IF pc[s] \in RequestingPcs THEN "Requesting"
    ELSE IF pc[s] \in StreamingPcs THEN "Streaming"
    ELSE IF pc[s] \in FailingPcs THEN "Failing"
    ELSE IF pc[s] = "done" THEN "Terminal"
    ELSE "None"

\* QThread.isRunning(): from start() until run() has returned
isRunning(s) == pc[s] \notin {"unborn", "done"}

\* the session is Requesting or Streaming: the POST has been issued and
\* run() has not returned
Active(s) == pc[s] \in RequestingPcs \cup StreamingPcs \cup FailingPcs

\* A variant of StopRequested for a worker that never looks at the flag.
StopNeverSeen(s) == FALSE

\* `if self._stop_requested` / `if not self._stop_requested`: what the
\* worker reads at lines 719, 776, 791, 810, 813 and 817

StopRequested(s) == stop_requested[s]

\* signal.emit(...): recorded, and queued to the foreground thread
Emit(s, e) ==
    /\ emitted' = [emitted EXCEPT ![s] = Append(@, e)]
    /\ queue' = Append(queue, [session |-> s, event |-> e])

Goto(s, l) == pc' = [pc EXCEPT ![s] = l]

(* ----------------------- OpenRouterAPIThread.run ----------------------- *)
\* line 719: the first stop check, before anything is built
RunEntry(s) ==
    /\ pc[s] = "start"
    /\ Goto(s, IF StopRequested(s) THEN "done" ELSE "build")
    /\ UNCHANGED <<config_vars, cache_vars, stop_requested, response, conn, posts, status, remaining,
                   cur, received, full_message, emitted, request, files, exc,
                   cancelled_in, stop_calls, window_vars, queue, fg>>

\* lines 722-774: headers and api_messages, read from the shared history
BuildPayload(s) ==
    /\ pc[s] = "build"
    /\ request' = [request EXCEPT ![s] = BuildApiMessages(messages, files[s])]
    /\ Goto(s, "precheck")
    /\ UNCHANGED <<config_vars, cache_vars, stop_requested, response, conn, posts, status, remaining,
                   cur, received, full_message, emitted, files, exc,
                   cancelled_in, stop_calls, window_vars, queue, fg>>

\* line 776: the second stop check, before the request is sent
PreRequestCheck(s) ==
    /\ pc[s] = "precheck"
    /\ Goto(s, IF StopRequested(s) THEN "done" ELSE "post")
    /\ UNCHANGED <<config_vars, cache_vars, stop_requested, response, conn, posts, status, remaining,
                   cur, received, full_message, emitted, request, files, exc,
                   cancelled_in, stop_calls, window_vars, queue, fg>>

\* line 779: requests.post is called; the thread blocks in it
IssuePost(s) ==
    /\ pc[s] = "post"
    /\ posts' = [posts EXCEPT ![s] = @ + 1]
    /\ conn' = [conn EXCEPT ![s] = "open"]
    /\ Goto(s, "posting")
    /\ UNCHANGED <<config_vars, cache_vars, stop_requested, response, status, remaining, cur, received,
                   full_message, emitted, request, files, exc, cancelled_in, stop_calls,
                   window_vars, queue, fg>>

\* A variant of PostReturns without the status test of line 788: every
\* response is iterated as a stream.
PostReturnsIgnoresStatus(s, maxlen) ==
    /\ pc[s] = "posting"
    /\ \/ /\ \E code \in StatusCodes, n \in 0..maxlen :
                /\ status' = [status EXCEPT ![s] = code]
                /\ remaining' = [remaining EXCEPT ![s] = n]
          /\ Goto(s, "iter")
          /\ response' = [response EXCEPT ![s] = "set"]
          /\ UNCHANGED <<conn, exc>>
       \/ /\ exc' = [exc EXCEPT ![s] = "RequestException"]
          /\ conn' = [conn EXCEPT ![s] = "closed"]
          /\ Goto(s, "exccheck")
          /\ UNCHANGED <<status, remaining, response>>
    /\ UNCHANGED <<config_vars, cache_vars, stop_requested, posts, cur, received, full_message, emitted,
                   request, files, cancelled_in, stop_calls, window_vars, queue, fg>>

\* lines 779-789: requests.post returns a response of n lines, which is
\* assigned to self._response and whose status code is tested, or it raises
\* (connection failure, timeout)
PostReturns(s, maxlen) ==
    /\ pc[s] = "posting"
    /\ \/ /\ \E code \in StatusCodes, n \in 0..maxlen :
                /\ status' = [status EXCEPT ![s] = code]
                /\ remaining' = [remaining EXCEPT ![s] = n]
                /\ Goto(s, IF code = 200 THEN "iter" ELSE "errcheck")
          /\ response' = [response EXCEPT ![s] = "set"]
          /\ UNCHANGED <<conn, exc>>
       \/ /\ exc' = [exc EXCEPT ![s] = "RequestException"]
          /\ conn' = [conn EXCEPT ![s] = "closed"]
          /\ Goto(s, "exccheck")
          /\ UNCHANGED <<status, remaining, response>>
    /\ UNCHANGED <<config_vars, cache_vars, stop_requested, posts, cur, received, full_message, emitted,
                   request, files, cancelled_in, stop_calls, window_vars, queue, fg>>

\* line 790: the next step of response.iter_lines().  The read yields the
\* next line, ends (the body is consumed and the connection released) or
\* raises.  On a connection that stop() closed, each of the three may
\* happen: a line already buffered, the end, or an error of the closed socket.
IterNext(s, lines) ==
    /\ pc[s] = "iter"
    /\ \/ /\ remaining[s] > 0
          /\ \E l \in lines :
                /\ cur' = [cur EXCEPT ![s] = l]
                /\ received' = [received EXCEPT ![s] = Append(@, l)]
          /\ remaining' = [remaining EXCEPT ![s] = @ - 1]
          /\ Goto(s, "loopcheck")
          /\ UNCHANGED <<conn, exc>>
       \/ /\ remaining[s] = 0 \/ conn[s] = "closed"
          /\ conn' = [conn EXCEPT ![s] = "closed"]
          /\ Goto(s, "endcheck")
          /\ UNCHANGED <<cur, received, remaining, exc>>
       \/ /\ exc' = [exc EXCEPT ![s] = "ReadError"]
          /\ conn' = [conn EXCEPT ![s] = "closed"]
          /\ Goto(s, "exccheck")
          /\ UNCHANGED <<cur, received, remaining>>
    /\ UNCHANGED <<config_vars, cache_vars, stop_requested, response, posts, status, full_message,
                   emitted, request, files, cancelled_in, stop_calls, window_vars, queue, fg>>

\* A variant of LoopStopCheck for a loop without the check of lines 791-792.
LoopStopCheckIgnoresFlag(s) ==
    /\ pc[s] = "loopcheck"
    /\ Goto(s, "process")
    /\ UNCHANGED <<config_vars, cache_vars, stop_requested, response, conn, posts, status, remaining,
                   cur, received, full_message, emitted, request, files, exc,
                   cancelled_in, stop_calls, window_vars, queue, fg>>

\* lines 791-792: the stop check at the head of the loop body
LoopStopCheck(s) ==
    /\ pc[s] = "loopcheck"
    /\ Goto(s, IF StopRequested(s) THEN "endcheck" ELSE "process")
    /\ UNCHANGED <<config_vars, cache_vars, stop_requested, response, conn, posts, status, remaining,
                   cur, received, full_message, emitted, request, files, exc,
                   cancelled_in, stop_calls, window_vars, queue, fg>>

\* lines 793-808: the rest of the loop body for the line read: the line
\* is skipped, ends the loop, yields a chunk (appended to full_message and
\* emitted) or raises into the handler of line 816
ProcessLine(s) ==
    /\ pc[s] = "process"
    /\ LET o == LineOutcome(cur[s]) IN
         /\ Goto(s, CASE o.act = "skip" -> "iter"
                      [] o.act = "break" -> "endcheck"
                      [] o.act = "chunk" -> "iter"
                      [] OTHER -> "exccheck")
         /\ IF o.act = "chunk"
            THEN /\ full_message' = [full_message EXCEPT ![s] = @ \o o.text]
                 /\ Emit(s, Event("chunk", o.text, 0))
            ELSE UNCHANGED <<full_message, emitted, queue>>
         /\ exc' = [exc EXCEPT ![s] = IF o.act = "raise" THEN "TypeError" ELSE @]
    /\ UNCHANGED <<config_vars, cache_vars, stop_requested, response, conn, posts, status, remaining,
                   cur, received, request, files, cancelled_in, stop_calls, window_vars, fg>>

\* line 810: the stop check after the loop
EndCheck(s) ==
    /\ pc[s] = "endcheck"
    /\ Goto(s, IF StopRequested(s) THEN "done" ELSE "emit_complete")
    /\ UNCHANGED <<config_vars, cache_vars, stop_requested, response, conn, posts, status, remaining,
                   cur, received, full_message, emitted, request, files, exc,
                   cancelled_in, stop_calls, window_vars, queue, fg>>

\* A variant of EmitComplete in which the emit is followed by a statement
\* that raises inside the try block, so that the handler of line 816 runs.
EmitCompleteThenRaises(s) ==
    /\ pc[s] = "emit_complete"
    /\ Emit(s, Event("complete", full_message[s], 0))
    /\ exc' = [exc EXCEPT ![s] = "TypeError"]
    /\ Goto(s, "exccheck")
    /\ UNCHANGED <<config_vars, cache_vars, stop_requested, response, conn, posts, status, remaining,
                   cur, received, full_message, request, files,
                   cancelled_in, stop_calls, window_vars, fg>>

\* line 811: message_received.emit(full_message)
EmitComplete(s) ==
    /\ pc[s] = "emit_complete"
    /\ Emit(s, Event("complete", full_message[s], 0))
    /\ Goto(s, "done")
    /\ UNCHANGED <<config_vars, cache_vars, stop_requested, response, conn, posts, status, remaining,
                   cur, received, full_message, request, files, exc,
                   cancelled_in, stop_calls, window_vars, fg>>

\* line 813: the stop check of the non-200 branch
ErrCheck(s) ==
    /\ pc[s] = "errcheck"
    /\ Goto(s, IF StopRequested(s) THEN "done" ELSE "emit_error")
    /\ UNCHANGED <<config_vars, cache_vars, stop_requested, response, conn, posts, status, remaining,
                   cur, received, full_message, emitted, request, files, exc,
                   cancelled_in, stop_calls, window_vars, queue, fg>>

\* line 814: response.text is read (the body is consumed, or the read
\* raises) and error_occurred is emitted with the status code and the body
EmitApiError(s) ==
    /\ pc[s] = "emit_error"
    /\ \/ /\ Emit(s, Event("error", ErrorBody, status[s]))
          /\ Goto(s, "done")
          /\ UNCHANGED exc
       \/ /\ exc' = [exc EXCEPT ![s] = "ReadError"]
          /\ Goto(s, "exccheck")
          /\ UNCHANGED <<emitted, queue>>
    /\ conn' = [conn EXCEPT ![s] = "closed"]
    /\ UNCHANGED <<config_vars, cache_vars, stop_requested, response, posts, status, remaining, cur,
                   received, full_message, request, files, cancelled_in, stop_calls,
                   window_vars, fg>>

\* line 817: the stop check of the exception handler
ExceptCheck(s) ==
    /\ pc[s] = "exccheck"
    /\ Goto(s, IF StopRequested(s) THEN "done" ELSE "emit_exc")
    /\ UNCHANGED <<config_vars, cache_vars, stop_requested, response, conn, posts, status, remaining,
                   cur, received, full_message, emitted, request, files, exc,
                   cancelled_in, stop_calls, window_vars, queue, fg>>

\* line 818: error_occurred.emit(str(e))
EmitExceptionError(s) ==
    /\ pc[s] = "emit_exc"
    /\ Emit(s, Event("error", exc[s], 0))
    /\ Goto(s, "done")
    /\ UNCHANGED <<config_vars, cache_vars, stop_requested, response, conn, posts, status, remaining,
                   cur, received, full_message, request, files, exc,
                   cancelled_in, stop_calls, window_vars, fg>>

\* one step of the worker thread of session s
run(s, lines, maxlen) ==
    \/ RunEntry(s)
    \/ BuildPayload(s)
    \/ PreRequestCheck(s)
    \/ IssuePost(s)
    \/ PostReturns(s, maxlen)
    \/ IterNext(s, lines)
    \/ LoopStopCheck(s)
    \/ ProcessLine(s)
    \/ EndCheck(s)
    \/ EmitComplete(s)
    \/ ErrCheck(s)
    \/ EmitApiError(s)
    \/ ExceptCheck(s)
    \/ EmitExceptionError(s)

(* ----------------------- OpenRouterAPIThread.stop ---------------------- *)
\* A variant of stop_set that flips the flag instead of setting it.
stop_setToggles(s) ==
    stop_requested' = [stop_requested EXCEPT ![s] = ~@]

\* line 822: self._stop_requested = True
stop_set(s) ==
    stop_requested' = [stop_requested EXCEPT ![s] = TRUE]

\* lines 823-827: if self._response: self._response.close()
stop_close(s) ==
    conn' = [conn EXCEPT ![s] = IF response[s] = "set" THEN "closed" ELSE @]

(* ------------------------------ MainWindow ----------------------------- *)
\* text.strip() of the input box
Strip(t) == IF t = "  " THEN "" ELSE t

\* A ChatBubble of the assistant: the session whose send created it (0 for
\* None), its current_message, and whether deleteLater() was called on it.
ChatBubble(owner, text, deleted) ==
    [owner |-> owner, text |-> text, deleted |-> deleted]

NoBubble == ChatBubble(0, "", FALSE)

\* OpenRouterAPIThread.__init__ (lines 707-715) and start() (line 1441)
NewThread(s, fs) ==
    /\ pc' = [pc EXCEPT ![s] = "start"]
    /\ stop_requested' = [stop_requested EXCEPT ![s] = FALSE]
    /\ response' = [response EXCEPT ![s] = "None"]
    /\ files' = [files EXCEPT ![s] = fs]

\* A variant of send_message without the API key test of lines 1394-1396.
send_messageWithoutKeyCheck(typed) ==
    LET text == Strip(typed) IN
    IF text = "" /\ attached_files = <<>>
    THEN UNCHANGED vars
    ELSE /\ nthreads < MaxSessions
         /\ LET s == nthreads + 1
                current_files == attached_files
            IN /\ messages' = Append(messages,
                      [role |-> "user",
                       content |-> IF text # "" THEN text ELSE DefaultImagePrompt])
               /\ text_input' = ""
               /\ send_btn' = FALSE
               /\ stop_btn' = TRUE
               /\ progress_bar' = TRUE
               /\ attached_files' = <<>>
               /\ current_ai_bubble' = ChatBubble(s, "", FALSE)
               /\ api_thread' = s
               /\ nthreads' = s
               /\ NewThread(s, current_files)
         /\ UNCHANGED <<config_vars, cache_vars, conn, posts, status, remaining, cur, received,
                        full_message, emitted, request, exc, cancelled_in, stop_calls,
                        api_key, dialog, queue, fg>>

\* A variant of send_message without the clear_files() of line 1419.
send_messageKeepsFiles(typed) ==
    LET text == Strip(typed) IN
    IF text = "" /\ attached_files = <<>>
    THEN UNCHANGED vars
    ELSE IF api_key = ""
    THEN /\ dialog' = "api_key_warning"
         /\ UNCHANGED <<config_vars, cache_vars, thread_vars, messages, api_thread, nthreads, api_key,
                        text_input, attached_files, current_ai_bubble,
                        send_btn, stop_btn, progress_bar, queue, fg>>
    ELSE /\ nthreads < MaxSessions
         /\ LET s == nthreads + 1
                current_files == attached_files
            IN /\ messages' = Append(messages,
                      [role |-> "user",
                       content |-> IF text # "" THEN text ELSE DefaultImagePrompt])
               /\ text_input' = ""
               /\ send_btn' = FALSE
               /\ stop_btn' = TRUE
               /\ progress_bar' = TRUE
               /\ attached_files' = attached_files
               /\ current_ai_bubble' = ChatBubble(s, "", FALSE)
               /\ api_thread' = s
               /\ nthreads' = s
               /\ NewThread(s, current_files)
         /\ UNCHANGED <<config_vars, cache_vars, conn, posts, status, remaining, cur, received,
                        full_message, emitted, request, exc, cancelled_in, stop_calls,
                        api_key, dialog, queue, fg>>

\* MainWindow.send_message (lines 1388-1441)
send_message(typed) ==
    LET text == Strip(typed) IN
    IF text = "" /\ attached_files = <<>>
    THEN UNCHANGED vars
    ELSE IF api_key = ""
    THEN /\ dialog' = "api_key_warning"
         /\ UNCHANGED <<config_vars, cache_vars, thread_vars, messages, api_thread, nthreads, api_key,
                        text_input, attached_files, current_ai_bubble,
                        send_btn, stop_btn, progress_bar, queue, fg>>
    ELSE /\ nthreads < MaxSessions
         /\ LET s == nthreads + 1
                current_files == attached_files
            IN /\ messages' = Append(messages,
                      [role |-> "user",
                       content |-> IF text # "" THEN text ELSE DefaultImagePrompt])
               /\ text_input' = ""
               /\ send_btn' = FALSE
               /\ stop_btn' = TRUE
               /\ progress_bar' = TRUE
               /\ attached_files' = <<>>
               /\ current_ai_bubble' = ChatBubble(s, "", FALSE)
               /\ api_thread' = s
               /\ nthreads' = s
               /\ NewThread(s, current_files)
         /\ UNCHANGED <<config_vars, cache_vars, conn, posts, status, remaining, cur, received,
                        full_message, emitted, request, exc, cancelled_in, stop_calls,
                        api_key, dialog, queue, fg>>

\* a click on the send button (line 1128): only a visible button is clicked
send_btn_clicked ==
    /\ fg = "idle"
    /\ send_btn
    /\ \E typed \in TextChoices : send_message(typed)

\* MainWindow.eventFilter (lines 1326-1332): Ctrl+Return in the input box
eventFilter ==
    /\ fg = "idle"
    /\ \E typed \in TextChoices : send_message(typed)

\* FileListWidget.add_file (lines 513-531)
add_file(f) ==
    /\ fg = "idle"
    /\ Len(attached_files) < MaxFiles
    /\ attached_files' = Append(attached_files, f)
    /\ UNCHANGED <<config_vars, cache_vars, thread_vars, messages, api_thread, nthreads, api_key,
                   text_input, current_ai_bubble, send_btn, stop_btn,
                   progress_bar, dialog, queue, fg>>

\* ChatBubble.update_message (lines 587-601): the text is appended; a
\* bubble whose widgets were deleted shows nothing more
update_message(b, chunk) ==
    IF b.deleted THEN b ELSE [b EXCEPT !.text = @ \o chunk]

\* MainWindow.on_message_chunk_received (lines 1443-1450)
on_message_chunk_received ==
    /\ fg = "idle"
    /\ queue # <<>>
    /\ Head(queue).event.kind = "chunk"
    /\ queue' = Tail(queue)
    /\ current_ai_bubble' =
          IF current_ai_bubble # NoBubble
          THEN update_message(current_ai_bubble, Head(queue).event.text)
          ELSE current_ai_bubble
    /\ UNCHANGED <<config_vars, cache_vars, thread_vars, messages, api_thread, nthreads, api_key,
                   text_input, attached_files, send_btn, stop_btn,
                   progress_bar, dialog, fg>>

\* MainWindow.on_message_received (lines 1452-1462)
on_message_received ==
    /\ fg = "idle"
    /\ queue # <<>>
    /\ Head(queue).event.kind = "complete"
    /\ queue' = Tail(queue)
    /\ messages' = Append(messages,
                          [role |-> "assistant", content |-> Head(queue).event.text])
    /\ current_ai_bubble' = NoBubble
    /\ stop_btn' = FALSE
    /\ send_btn' = TRUE
    /\ progress_bar' = FALSE
    /\ UNCHANGED <<config_vars, cache_vars, thread_vars, api_thread, nthreads, api_key, text_input,
                   attached_files, dialog, fg>>

\* MainWindow.on_error_occurred (lines 1464-1474)
on_error_occurred ==
    /\ fg = "idle"
    /\ queue # <<>>
    /\ Head(queue).event.kind = "error"
    /\ queue' = Tail(queue)
    /\ current_ai_bubble' = NoBubble
    /\ dialog' = "error"
    /\ stop_btn' = FALSE
    /\ send_btn' = TRUE
    /\ progress_bar' = FALSE
    /\ UNCHANGED <<config_vars, cache_vars, thread_vars, messages, api_thread, nthreads, api_key,
                   text_input, attached_files, fg>>

\* MainWindow.clear_chat (lines 1476-1485): every bubble of the layout is
\* deleted, the streaming one included (current_ai_bubble keeps referring
\* to it), and the history is emptied
clear_chat ==
    /\ fg = "idle"
    /\ current_ai_bubble' =
          IF current_ai_bubble # NoBubble
          THEN [current_ai_bubble EXCEPT !.deleted = TRUE]
          ELSE current_ai_bubble
    /\ messages' = <<>>
    /\ UNCHANGED <<config_vars, cache_vars, thread_vars, api_thread, nthreads, api_key, text_input,
                   attached_files, send_btn, stop_btn, progress_bar, dialog,
                   queue, fg>>

\* MainWindow.stop_inference (lines 1588-1591): a click on the stop button;
\* api_thread.stop() begins when the thread is running
stop_inference_begin ==
    /\ fg = "idle"
    /\ stop_btn
    /\ IF api_thread # 0 /\ isRunning(api_thread)
       THEN /\ stop_set(api_thread)
            /\ fg' = "stop"
       ELSE UNCHANGED <<stop_requested, fg>>
    /\ UNCHANGED <<config_vars, cache_vars, pc, response, conn, posts, status, remaining, cur, received,
                   full_message, emitted, request, files, exc, cancelled_in, stop_calls,
                   window_vars, queue>>

\* lines 1591-1592: api_thread.stop() closes the response, then wait(1000)
stop_inference_close ==
    /\ fg = "stop"
    /\ stop_close(api_thread)
    /\ fg' = "wait"
    /\ UNCHANGED <<config_vars, cache_vars, pc, stop_requested, response, posts, status, remaining, cur,
                   received, full_message, emitted, request, files, exc,
                   cancelled_in, stop_calls, window_vars, queue>>

\* A variant of stop_inference_finish without the reset of the buttons of
\* lines 1599-1602.
stop_inference_finishKeepsButtons ==
    /\ fg = "wait"
    /\ current_ai_bubble' = NoBubble
    /\ fg' = "idle"
    /\ UNCHANGED <<config_vars, cache_vars, thread_vars, messages, api_thread, nthreads, api_key,
                   text_input, attached_files, dialog, queue, send_btn, stop_btn,
                   progress_bar>>

\* lines 1592-1602: wait(1000) returns, because the thread has finished or
\* because the second has passed; the bubble is removed and the buttons reset
stop_inference_finish ==
    /\ fg = "wait"
    /\ current_ai_bubble' = NoBubble
    /\ stop_btn' = FALSE
    /\ send_btn' = TRUE
    /\ progress_bar' = FALSE
    /\ fg' = "idle"
    /\ UNCHANGED <<config_vars, cache_vars, thread_vars, messages, api_thread, nthreads, api_key,
                   text_input, attached_files, dialog, queue>>

(* --------------------------- ModelInfoManager -------------------------- *)
\* Strings that are searched are sequences of characters.
UpperCase ==
    <<"A", "B", "C", "D", "E", "F", "G", "H", "I", "J", "K", "L", "M",
      "N", "O", "P", "Q", "R", "S", "T", "U", "V", "W", "X", "Y", "Z">>
LowerCase ==
    <<"a", "b", "c", "d", "e", "f", "g", "h", "i", "j", "k", "l", "m",
      "n", "o", "p", "q", "r", "s", "t", "u", "v", "w", "x", "y", "z">>

\* str.lower()
LowerChar(c) ==
    IF \E i \in DOMAIN UpperCase : UpperCase[i] = c
    THEN LowerCase[CHOOSE i \in DOMAIN UpperCase : UpperCase[i] = c]
    ELSE c
lower(str) == [i \in 1..Len(str) |-> LowerChar(str[i])]

\* `sub in str`
Contains(sub, str) ==
    \E i \in 0..(Len(str) - Len(sub)) : SubSeq(str, i + 1, i + Len(sub)) = sub

\* the model ids looked up
IdClaudeOpus == <<"C", "l", "a", "u", "d", "e", "-", "3", "-", "O", "p", "u", "s">>
IdClaude37 == <<"c", "l", "a", "u", "d", "e", "-", "3", ".", "7", "-", "s", "o", "n", "n", "e", "t">>
IdGpt4o == <<"g", "p", "t", "-", "4", "o">>
IdMistral == <<"m", "i", "s", "t", "r", "a", "l", "-", "7", "b">>
ModelIds == {IdClaudeOpus, IdClaude37, IdGpt4o, IdMistral}

\* display names of catalog entries
NamePlain == <<"C", "h", "a", "t">>
NameVision == <<"P", "r", "o", " ", "V", "i", "s", "i", "o", "n">>
CatalogNames == {NamePlain, NameVision}

\* line 280
vision_keywords ==
    << <<"v", "i", "s", "i", "o", "n">>,
       <<"g", "p", "t", "-", "4", "o">>,
       <<"c", "l", "a", "u", "d", "e", "-", "3">>,
       <<"g", "e", "m", "i", "n", "i">>,
       <<"q", "w", "e", "n", "-", "v", "l">>,
       <<"p", "i", "x", "t", "r", "a", "l">>,
       <<"l", "l", "a", "m", "a", "-", "3", ".", "2", "-", "9", "0", "b", "-", "v", "i", "s", "i", "o", "n">>,
       <<"p", "h", "i", "-", "3", ".", "5", "-", "v", "i", "s", "i", "o", "n">> >>

\* lines 308-311
vision_models ==
    << <<"g", "p", "t", "-", "4", "o">>,
       <<"g", "p", "t", "-", "4", "-", "v", "i", "s", "i", "o", "n">>,
       <<"c", "l", "a", "u", "d", "e", "-", "3", ".", "5", "-", "s", "o", "n", "n", "e", "t">>,
       <<"c", "l", "a", "u", "d", "e", "-", "3", "-", "o", "p", "u", "s">>,
       <<"c", "l", "a", "u", "d", "e", "-", "3", "-", "s", "o", "n", "n", "e", "t">>,
       <<"c", "l", "a", "u", "d", "e", "-", "3", "-", "h", "a", "i", "k", "u">>,
       <<"g", "e", "m", "i", "n", "i", "-", "p", "r", "o", "-", "1", ".", "5">>,
       <<"g", "e", "m", "i", "n", "i", "-", "f", "l", "a", "s", "h", "-", "1", ".", "5">>,
       <<"q", "w", "e", "n", "-", "2", "-", "v", "l">>,
       <<"p", "i", "x", "t", "r", "a", "l">>,
       <<"l", "l", "a", "m", "a", "-", "3", ".", "2", "-", "9", "0", "b", "-", "v", "i", "s", "i", "o", "n">>,
       <<"p", "h", "i", "-", "3", ".", "5", "-", "v", "i", "s", "i", "o", "n">> >>

\* the info dict: name, description, input_types, context_length (the
\* pricing and provider fields are copied like context_length)
ModelInfo(name, description, input_types, context_length) ==
    [name |-> name, description |-> description, input_types |-> input_types,
     context_length |-> context_length]

\* an element of the "data" list of the catalog
CatalogEntry(id, name) ==
    [id |-> id, name |-> name, description |-> "catalog", context_length |-> "8192"]

\* A variant of process_model_info that replaces the input types of a
\* vision model by ['image'] instead of appending to ['text'] (line 282).
process_model_infoImageOnly(model_data) ==
    LET model_name == lower(model_data.name)
        model_id == lower(model_data.id)
        vision == \E k \in DOMAIN vision_keywords :
                     \/ Contains(vision_keywords[k], model_name)
                     \/ Contains(vision_keywords[k], model_id)
    IN ModelInfo(model_data.name, model_data.description,
                 IF vision THEN <<"image">> ELSE <<"text">>,
                 model_data.context_length)

\* ModelInfoManager._process_model_info (lines 270-292)
process_model_info(model_data) ==
    LET model_name == lower(model_data.name)
        model_id == lower(model_data.id)
        vision == \E k \in DOMAIN vision_keywords :
                     \/ Contains(vision_keywords[k], model_name)
                     \/ Contains(vision_keywords[k], model_id)
    IN ModelInfo(model_data.name, model_data.description,
                 IF vision THEN <<"text", "image">> ELSE <<"text">>,
                 model_data.context_length)

\* ModelInfoManager._get_default_model_info (lines 294-318)
get_default_model_info(model_id) ==
    ModelInfo(model_id, "placeholder",
              IF \E v \in DOMAIN vision_models :
                    Contains(vision_models[v], lower(model_id))
              THEN <<"text", "image">> ELSE <<"text">>,
              "Unknown")

\* 7 * 24 * 3600 seconds (line 224)
CacheTTL == 604800

\* instants of time.time(), around the week
Times == {0, 1, CacheTTL, CacheTTL + 1}

\* an entry of self.cache: {'info': ..., 'cached_at': ...}, or none
NoInfo == ModelInfo(<<>>, "", <<>>, "")
NoEntry == [present |-> FALSE, info |-> NoInfo, cached_at |-> 0]
Entry(info, t) == [present |-> TRUE, info |-> info, cached_at |-> t]
EmptyCache == [id \in ModelIds |-> NoEntry]

\* how a fetch fails: requests.get raises, the status is not 200, the
\* catalog does not list the id
FetchFailures == {"ConnectionError", "status", "no_match"}

\* how save_cache ends (lines 209-215): written, open() failed, or the
\* dump failed after the file was truncated (load_cache then reads {})
SaveOutcomes == {"saved", "open_failed", "dump_failed"}

\* one call of get_model_info: the id, the entry found, the time, the key,
\* whether requests.get was called, how it failed or what it listed, how
\* the save ended, and what was returned by which path
Return(id, via, info, requested, failure, listed, saved) ==
    [model_id |-> id, before |-> cache[id], at |-> now, via |-> via,
     info |-> info, requested |-> requested, failure |-> failure,
     listed |-> listed, saved |-> saved, key |-> mgr_key]
NoReturn ==
    [model_id |-> <<>>, before |-> NoEntry, at |-> 0, via |-> "none",
     info |-> NoInfo, requested |-> FALSE, failure |-> "none",
     listed |-> NoInfo, saved |-> "none", key |-> ""]

\* A variant of the freshness test of line 224 that accepts the entry at
\* exactly seven days.
IsFreshInclusive(entry, t) == entry.present /\ t - entry.cached_at <= CacheTTL

\* lines 220-224: the id is cached and the entry is younger than a week
IsFresh(entry, t) == entry.present /\ t - entry.cached_at < CacheTTL

\* the file after save_cache (lines 209-215)
save_cache(outcome, c) ==
    CASE outcome = "saved" -> c
      [] outcome = "open_failed" -> cache_file
      [] OTHER -> EmptyCache

\* A variant of fetch_model_info without the credential test of line 233.
fetch_model_infoWithoutKeyCheck(model_id) ==
    /\ gets < MaxGets
    /\ gets' = gets + 1
    /\ \/ /\ \E f \in FetchFailures :
                ret' = Return(model_id, "default",
                              get_default_model_info(model_id), TRUE, f,
                              NoInfo, "none")
          /\ UNCHANGED <<cache, cache_file>>
       \/ \E name \in CatalogNames, outcome \in SaveOutcomes :
             LET model_info == process_model_info(CatalogEntry(model_id, name))
             IN /\ cache' = [cache EXCEPT ![model_id] = Entry(model_info, now)]
                /\ cache_file' = save_cache(outcome, cache')
                /\ ret' = Return(model_id, "fetch", model_info, TRUE, "none",
                                 model_info, outcome)

\* A variant of fetch_model_info that gives up on the fetched info when the
\* cache cannot be saved.
fetch_model_infoDefaultOnSaveFailure(model_id) ==
    IF mgr_key = ""
    THEN /\ ret' = Return(model_id, "default", get_default_model_info(model_id),
                          FALSE, "none", NoInfo, "none")
         /\ UNCHANGED <<cache, cache_file, gets>>
    ELSE /\ gets < MaxGets
         /\ gets' = gets + 1
         /\ \/ /\ \E f \in FetchFailures :
                     ret' = Return(model_id, "default",
                                   get_default_model_info(model_id), TRUE, f,
                                   NoInfo, "none")
               /\ UNCHANGED <<cache, cache_file>>
            \/ \E name \in CatalogNames, outcome \in SaveOutcomes :
                  LET model_info == process_model_info(CatalogEntry(model_id, name))
                  IN /\ cache' = [cache EXCEPT ![model_id] = Entry(model_info, now)]
                     /\ cache_file' = save_cache(outcome, cache')
                     /\ ret' = Return(model_id,
                                      IF outcome = "saved" THEN "fetch" ELSE "default",
                                      IF outcome = "saved" THEN model_info
                                      ELSE get_default_model_info(model_id),
                                      TRUE, "none", model_info, outcome)

\* A variant of fetch_model_info that stores the default info it returns
\* after a failed fetch, as it stores a fetched one (lines 255-259).
fetch_model_infoCachesDefault(model_id) ==
    IF mgr_key = ""
    THEN /\ ret' = Return(model_id, "default", get_default_model_info(model_id),
                          FALSE, "none", NoInfo, "none")
         /\ UNCHANGED <<cache, cache_file, gets>>
    ELSE /\ gets < MaxGets
         /\ gets' = gets + 1
         /\ \/ /\ \E f \in FetchFailures :
                     ret' = Return(model_id, "default",
                                   get_default_model_info(model_id), TRUE, f,
                                   NoInfo, "none")
               /\ cache' = [cache EXCEPT ![model_id] =
                               Entry(get_default_model_info(model_id), now)]
               /\ cache_file' = save_cache("saved", cache')
            \/ \E name \in CatalogNames, outcome \in SaveOutcomes :
                  LET model_info == process_model_info(CatalogEntry(model_id, name))
                  IN /\ cache' = [cache EXCEPT ![model_id] = Entry(model_info, now)]
                     /\ cache_file' = save_cache(outcome, cache')
                     /\ ret' = Return(model_id, "fetch", model_info, TRUE, "none",
                                      model_info, outcome)

\* ModelInfoManager._fetch_model_info (lines 230-268): without a key the
\* default info; otherwise one requests.get, which fails (default info) or
\* lists the id: the processed info is cached, saved and returned
fetch_model_info(model_id) ==
    IF mgr_key = ""
    THEN /\ ret' = Return(model_id, "default", get_default_model_info(model_id),
                          FALSE, "none", NoInfo, "none")
         /\ UNCHANGED <<cache, cache_file, gets>>
    ELSE /\ gets < MaxGets
         /\ gets' = gets + 1
         /\ \/ /\ \E f \in FetchFailures :
                     ret' = Return(model_id, "default",
                                   get_default_model_info(model_id), TRUE, f,
                                   NoInfo, "none")
               /\ UNCHANGED <<cache, cache_file>>
            \/ \E name \in CatalogNames, outcome \in SaveOutcomes :
                  LET model_info == process_model_info(CatalogEntry(model_id, name))
                  IN /\ cache' = [cache EXCEPT ![model_id] = Entry(model_info, now)]
                     /\ cache_file' = save_cache(outcome, cache')
                     /\ ret' = Return(model_id, "fetch", model_info, TRUE, "none",
                                      model_info, outcome)

\* ModelInfoManager.get_model_info (lines 217-228)
get_model_info(model_id) ==
    /\ IF IsFresh(cache[model_id], now)
       THEN /\ ret' = Return(model_id, "cache", cache[model_id].info, FALSE,
                             "none", NoInfo, "none")
            /\ UNCHANGED <<cache, cache_file, gets>>
       ELSE fetch_model_info(model_id)
    /\ UNCHANGED <<mgr_key, now, thread_vars, window_vars, queue, fg,
                   config_vars>>

\* time passes
Tick ==
    /\ \E t \in Times : t > now /\ now' = t
    /\ UNCHANGED <<mgr_key, cache, cache_file, gets, ret, thread_vars,
                   window_vars, queue, fg, config_vars>>

(* ---------------------------- configuration ---------------------------- *)
\* what can be typed into the settings dialog
ApiKeys == {"", "sk-key"}
DefaultBaseUrl == "https://openrouter.ai/api/v1"
BaseUrls == {DefaultBaseUrl, "http://localhost:8000/v1"}

\* Python's None
PyNone == "None"

\* CustomModelDialog.get_model_data (lines 369-374); an empty id is refused
CustomModel(id) == [id |-> id, name |-> "My model", description |-> ""]
CustomIds == {"my/model-a", "my/model-b"}
CustomModelInputs == {CustomModel(id) : id \in CustomIds \cup {""}}

\* the ids the model combo can select
SelectableIds == {"openai/gpt-4o", "my/model-a"}

\* a dict is a function from its keys; d.get(k, default) and d[k] = v
Get(d, k, default) == IF k \in DOMAIN d THEN d[k] ELSE default
Put(d, k, v) == [x \in DOMAIN d \cup {k} |-> IF x = k THEN v ELSE d[x]]

\* CONFIG_FILE: missing, or the JSON object it holds
EmptyDict == [x \in {} |-> ""]
NoConfigFile == [exists |-> FALSE, data |-> EmptyDict]
ConfigFile(d) == [exists |-> TRUE, data |-> d]

\* MainWindow.load_config (lines 851-877): the file's object with the key
\* of the keyring added, or the defaults when there is no file
load_config(file, kr) ==
    IF file.exists
    THEN Put(file.data, "api_key", kr)
    ELSE [api_key |-> kr, base_url |-> DefaultBaseUrl, custom_models |-> <<>>,
          last_selected_model |-> PyNone]

\* A variant of WithoutApiKey that writes the loaded dict as it is.
WithApiKey(config) == config

\* lines 896, 917, 933: {k: v for k, v in config.items() if k != 'api_key'}
WithoutApiKey(config) == [k \in DOMAIN config \ {"api_key"} |-> config[k]]

\* ConfigDialog.save_config (lines 427-457): the key goes to the keyring (an
\* empty one deletes the password), the base URL and the custom models
\* found in the file are written; the writes are taken to succeed
save_config(api_key_text, base_url_text) ==
    /\ keyring' = api_key_text
    /\ config_file' =
          ConfigFile([base_url |-> base_url_text,
                      custom_models |->
                          IF config_file.exists
                          THEN Get(config_file.data, "custom_models", <<>>)
                          ELSE <<>>])
    /\ config_op' = "save_config"

\* MainWindow.open_settings (lines 1350-1358), accepted: the dialog saves,
\* the configuration is read again and a new ModelInfoManager loads the
\* cache file
open_settings ==
    /\ fg = "idle"
    /\ \E k \in ApiKeys, b \in BaseUrls : save_config(k, b)
    /\ api_key' = load_config(config_file', keyring').api_key
    /\ mgr_key' = api_key'
    /\ cache' = cache_file
    /\ dialog' = "settings_saved"
    /\ UNCHANGED <<cache_file, now, gets, ret, thread_vars, messages,
                   api_thread, nthreads, text_input, attached_files,
                   current_ai_bubble, send_btn, stop_btn, progress_bar,
                   queue, fg>>

\* MainWindow.add_custom_model (lines 1487-1512) with save_custom_model
\* (lines 879-903): an empty id is refused, an id already stored is
\* refused, otherwise the model is appended and the configuration read again
add_custom_model(model_data) ==
    /\ fg = "idle"
    /\ IF model_data.id = "" \/ model_data.name = ""
       THEN /\ dialog' = "custom_model_invalid"
            /\ UNCHANGED <<config_vars, api_key>>
       ELSE LET config == load_config(config_file, keyring)
                custom_models == Get(config, "custom_models", <<>>)
            IN /\ IF \E i \in DOMAIN custom_models :
                        custom_models[i].id = model_data.id
                  THEN /\ dialog' = "custom_model_refused"
                       /\ UNCHANGED <<config_file, config_op, api_key>>
                  ELSE /\ config_op' = "save_custom_model"
                       /\ config_file' =
                             ConfigFile(WithoutApiKey(
                                 Put(config, "custom_models",
                                     Append(custom_models, model_data))))
                       /\ api_key' = load_config(config_file', keyring).api_key
                       /\ dialog' = "custom_model_added"
               /\ UNCHANGED keyring
    /\ UNCHANGED <<cache_vars, thread_vars, messages, api_thread, nthreads,
                   text_input, attached_files, current_ai_bubble, send_btn,
                   stop_btn, progress_bar, queue, fg>>

\* MainWindow.delete_custom_model (lines 1526-1542), confirmed, with
\* remove_custom_model (lines 905-924)
delete_custom_model(model_id) ==
    /\ fg = "idle"
    /\ LET config == load_config(config_file, keyring)
           Keep(m) == m.id # model_id
       IN IF "custom_models" \notin DOMAIN config
          THEN /\ dialog' = "custom_model_not_deleted"
               /\ UNCHANGED <<config_file, config_op, api_key>>
          ELSE LET kept == SelectSeq(config["custom_models"], Keep)
               IN IF Len(kept) < Len(config["custom_models"])
                  THEN /\ config_op' = "remove_custom_model"
                       /\ config_file' =
                             ConfigFile(WithoutApiKey(
                                 Put(config, "custom_models", kept)))
                       /\ api_key' = load_config(config_file', keyring).api_key
                       /\ dialog' = "custom_model_deleted"
                  ELSE /\ dialog' = "custom_model_not_deleted"
                       /\ UNCHANGED <<config_file, config_op, api_key>>
    /\ UNCHANGED <<keyring, cache_vars, thread_vars, messages, api_thread,
                   nthreads, text_input, attached_files, current_ai_bubble,
                   send_btn, stop_btn, progress_bar, queue, fg>>

\* MainWindow.save_last_selected_model (lines 926-937), as on_model_changed
\* (line 1548) calls it before the info of the model is displayed
save_last_selected_model(model_id) ==
    /\ fg = "idle"
    /\ LET config == load_config(config_file, keyring)
       IN config_file' =
             ConfigFile(WithoutApiKey(Put(config, "last_selected_model", model_id)))
    /\ config_op' = "save_last_selected_model"
    /\ UNCHANGED <<keyring, cache_vars, thread_vars, window_vars, queue, fg>>

\* lines 33-35, 839: no configuration written yet, the key of the window as
\* the keyring holds it
ConfigAtRest ==
    /\ keyring = api_key
    /\ config_file = NoConfigFile
    /\ config_op = "none"

\* line 841: the manager of a window that has looked nothing up yet
ManagerAtRest ==
    /\ mgr_key = api_key
    /\ cache = EmptyCache
    /\ cache_file = EmptyCache
    /\ now = 0
    /\ gets = 0
    /\ ret = NoReturn

(* --------------------------- the application --------------------------- *)
\* MainWindow.__init__ (lines 831-849): no thread yet, the key as the
\* keyring holds it
Init ==
    /\ pc = [s \in Sessions |-> "unborn"]
    /\ stop_requested = [s \in Sessions |-> FALSE]
    /\ response = [s \in Sessions |-> "None"]
    /\ conn = [s \in Sessions |-> "none"]
    /\ posts = [s \in Sessions |-> 0]
    /\ status = [s \in Sessions |-> 0]
    /\ remaining = [s \in Sessions |-> 0]
    /\ cur = [s \in Sessions |-> NoLine]
    /\ received = [s \in Sessions |-> <<>>]
    /\ full_message = [s \in Sessions |-> ""]
    /\ emitted = [s \in Sessions |-> <<>>]
    /\ request = [s \in Sessions |-> <<>>]
    /\ files = [s \in Sessions |-> <<>>]
    /\ exc = [s \in Sessions |-> "none"]
    /\ cancelled_in = [s \in Sessions |-> "none"]
    /\ stop_calls = [s \in Sessions |-> 0]
    /\ messages = <<>>
    /\ api_thread = 0
    /\ nthreads = 0
    /\ api_key \in {"", "sk-key"}
    /\ text_input = ""
    /\ attached_files = <<>>
    /\ current_ai_bubble = NoBubble
    /\ send_btn = TRUE
    /\ stop_btn = FALSE
    /\ progress_bar = FALSE
    /\ dialog = "none"
    /\ queue = <<>>
    /\ fg = "idle"
    /\ ManagerAtRest
    /\ ConfigAtRest

Next ==
    \/ send_btn_clicked
    \/ eventFilter
    \/ \E f \in AppFileChoices : add_file(f)
    \/ on_message_chunk_received
    \/ on_message_received
    \/ on_error_occurred
    \/ stop_inference_begin
    \/ stop_inference_close
    \/ stop_inference_finish
    \/ \E s \in Sessions : run(s, AppLines, MaxAppLines)

Spec == Init /\ [][Next]_vars

\* The application without attachments: sending, stopping, the workers and
\* the delivery of their signals.
NextSend ==
    \/ send_btn_clicked
    \/ eventFilter
    \/ on_message_chunk_received
    \/ on_message_received
    \/ on_error_occurred
    \/ stop_inference_begin
    \/ stop_inference_close
    \/ stop_inference_finish
    \/ \E s \in Sessions : run(s, AppLines, MaxAppLines)

SpecSend == Init /\ [][NextSend]_vars

\* The same with its scheduling: every started thread keeps running (each
\* read of the transport returns, ends or raises), the event loop delivers
\* every queued signal, and a handler that has begun goes on.
SpecSendFair ==
    /\ SpecSend
    /\ \A s \in Sessions : WF_vars(run(s, AppLines, MaxAppLines))
    /\ WF_vars(on_message_chunk_received)
    /\ WF_vars(on_message_received)
    /\ WF_vars(on_error_occurred)
    /\ WF_vars(stop_inference_close)
    /\ WF_vars(stop_inference_finish)

(* ----------------------- one session and its caller -------------------- *)
\* The state right after send_message has constructed and started the
\* first thread for the text "hi" (lines 1405-1441).
InitSession ==
    /\ pc = [s \in Sessions |-> IF s = 1 THEN "start" ELSE "unborn"]
    /\ stop_requested = [s \in Sessions |-> FALSE]
    /\ response = [s \in Sessions |-> "None"]
    /\ conn = [s \in Sessions |-> "none"]
    /\ posts = [s \in Sessions |-> 0]
    /\ status = [s \in Sessions |-> 0]
    /\ remaining = [s \in Sessions |-> 0]
    /\ cur = [s \in Sessions |-> NoLine]
    /\ received = [s \in Sessions |-> <<>>]
    /\ full_message = [s \in Sessions |-> ""]
    /\ emitted = [s \in Sessions |-> <<>>]
    /\ request = [s \in Sessions |-> <<>>]
    /\ files = [s \in Sessions |-> <<>>]
    /\ exc = [s \in Sessions |-> "none"]
    /\ cancelled_in = [s \in Sessions |-> "none"]
    /\ stop_calls = [s \in Sessions |-> 0]
    /\ messages = <<[role |-> "user", content |-> "hi"]>>
    /\ api_thread = 1
    /\ nthreads = 1
    /\ api_key = "sk-key"
    /\ text_input = ""
    /\ attached_files = <<>>
    /\ current_ai_bubble = ChatBubble(1, "", FALSE)
    /\ send_btn = FALSE
    /\ stop_btn = TRUE
    /\ progress_bar = TRUE
    /\ dialog = "none"
    /\ queue = <<>>
    /\ fg = "idle"
    /\ ManagerAtRest
    /\ ConfigAtRest

\* the foreground thread calls api_thread.stop(): line 822, and the state
\* of the session at that moment is noted the first time
StopCall ==
    /\ fg = "idle"
    /\ stop_calls[api_thread] < MaxStops
    /\ stop_calls' = [stop_calls EXCEPT ![api_thread] = @ + 1]
    /\ stop_set(api_thread)
    /\ cancelled_in' = [cancelled_in EXCEPT ![api_thread] =
                           IF stop_requested[api_thread] THEN @
                           ELSE Phase(api_thread)]
    /\ fg' = "stop"
    /\ UNCHANGED <<config_vars, cache_vars, pc, response, conn, posts, status, remaining, cur, received,
                   full_message, emitted, request, files, exc, window_vars, queue>>

\* lines 823-827 of that call; stop() returns
StopReturn ==
    /\ fg = "stop"
    /\ stop_close(api_thread)
    /\ fg' = "idle"
    /\ UNCHANGED <<config_vars, cache_vars, pc, stop_requested, response, posts, status, remaining, cur,
                   received, full_message, emitted, request, files, exc,
                   cancelled_in, stop_calls, window_vars, queue>>

NextSession ==
    \/ run(1, AllLines, MaxLines)
    \/ StopCall
    \/ StopReturn
    \/ clear_chat

SpecSession == InitSession /\ [][NextSession]_vars

\* the same, with a worker thread that keeps being scheduled and whose
\* transport reads (requests.post, iter_lines, response.text) each return,
\* end or raise
SpecSessionFair == SpecSession /\ WF_vars(run(1, AllLines, MaxLines))

(* ------------------------ the payload on its own ----------------------- *)
SeqsUpTo(S, n) == UNION {[1..k -> S] : k \in 0..n}

\* the dicts of self.messages: a role and a content string, possibly empty
MessageChoices ==
    {[role |-> r, content |-> c] : r \in {"user", "assistant"}, c \in {"", "hi"}}

\* OpenRouterAPIThread(api_key, base_url, model, messages, attached_files)
\* constructed and started with any history and any attachment list
\* (lines 707-715), run() past its first check
InitPayload ==
    /\ pc = [s \in Sessions |-> IF s = 1 THEN "build" ELSE "unborn"]
    /\ stop_requested = [s \in Sessions |-> FALSE]
    /\ response = [s \in Sessions |-> "None"]
    /\ conn = [s \in Sessions |-> "none"]
    /\ posts = [s \in Sessions |-> 0]
    /\ status = [s \in Sessions |-> 0]
    /\ remaining = [s \in Sessions |-> 0]
    /\ cur = [s \in Sessions |-> NoLine]
    /\ received = [s \in Sessions |-> <<>>]
    /\ full_message = [s \in Sessions |-> ""]
    /\ emitted = [s \in Sessions |-> <<>>]
    /\ request = [s \in Sessions |-> <<>>]
    /\ \E fs \in SeqsUpTo(FileChoices, MaxPayloadFiles) :
          files = [s \in Sessions |-> IF s = 1 THEN fs ELSE <<>>]
    /\ exc = [s \in Sessions |-> "none"]
    /\ cancelled_in = [s \in Sessions |-> "none"]
    /\ stop_calls = [s \in Sessions |-> 0]
    /\ messages \in SeqsUpTo(MessageChoices, MaxHistory) \ {<<>>}
    /\ api_thread = 1
    /\ nthreads = 1
    /\ api_key = "sk-key"
    /\ text_input = ""
    /\ attached_files = <<>>
    /\ current_ai_bubble = ChatBubble(1, "", FALSE)
    /\ send_btn = FALSE
    /\ stop_btn = TRUE
    /\ progress_bar = TRUE
    /\ dialog = "none"
    /\ queue = <<>>
    /\ fg = "idle"
    /\ ManagerAtRest
    /\ ConfigAtRest

NextPayload == BuildPayload(1)

SpecPayload == InitPayload /\ [][NextPayload]_vars

(* ----------------------- the model info manager ----------------------- *)
\* the caches a previous run can have left in the file: empty, or one entry
\* fetched at some earlier time
StoredCaches(t) ==
    {EmptyCache} \cup
    {[EmptyCache EXCEPT ![id] = Entry(process_model_info(CatalogEntry(id, name)), at)] :
        id \in ModelIds, name \in CatalogNames, at \in {x \in Times : x <= t}}

\* MainWindow.__init__ (lines 831-849) with no thread, at any time, with
\* any key and any stored cache
InitCache ==
    /\ pc = [s \in Sessions |-> "unborn"]
    /\ stop_requested = [s \in Sessions |-> FALSE]
    /\ response = [s \in Sessions |-> "None"]
    /\ conn = [s \in Sessions |-> "none"]
    /\ posts = [s \in Sessions |-> 0]
    /\ status = [s \in Sessions |-> 0]
    /\ remaining = [s \in Sessions |-> 0]
    /\ cur = [s \in Sessions |-> NoLine]
    /\ received = [s \in Sessions |-> <<>>]
    /\ full_message = [s \in Sessions |-> ""]
    /\ emitted = [s \in Sessions |-> <<>>]
    /\ request = [s \in Sessions |-> <<>>]
    /\ files = [s \in Sessions |-> <<>>]
    /\ exc = [s \in Sessions |-> "none"]
    /\ cancelled_in = [s \in Sessions |-> "none"]
    /\ stop_calls = [s \in Sessions |-> 0]
    /\ messages = <<>>
    /\ api_thread = 0
    /\ nthreads = 0
    /\ api_key \in {"", "sk-key"}
    /\ text_input = ""
    /\ attached_files = <<>>
    /\ current_ai_bubble = NoBubble
    /\ send_btn = TRUE
    /\ stop_btn = FALSE
    /\ progress_bar = FALSE
    /\ dialog = "none"
    /\ queue = <<>>
    /\ fg = "idle"
    /\ mgr_key = api_key
    /\ now \in Times
    /\ cache_file \in StoredCaches(now)
    /\ cache = cache_file
    /\ gets = 0
    /\ ret = NoReturn
    /\ ConfigAtRest

NextCache ==
    \/ \E id \in ModelIds : get_model_info(id)
    \/ Tick
    \/ open_settings

SpecCache == InitCache /\ [][NextCache]_vars

(* --------------------------- the configuration ------------------------- *)
\* The window and the four writers of the configuration, from a first
\* start without a configuration file.
NextConfig ==
    \/ open_settings
    \/ \E model_data \in CustomModelInputs : add_custom_model(model_data)
    \/ \E model_id \in CustomIds : delete_custom_model(model_id)
    \/ \E model_id \in SelectableIds : save_last_selected_model(model_id)

SpecConfig == Init /\ [][NextConfig]_vars

(* ============================== properties ============================ *)
\* what the stream protocol says of a line, independently of run()
IsData(l)         == l.prefix = "data: "
IsDone(l)         == IsData(l) /\ l.form = "done"
IsMalformed(l)    == IsData(l) /\ l.form \in {"malformed", "empty"}
IsJson(l)         == IsData(l) /\ l.form = "json"
CarriesContent(l) ==
    /\ IsJson(l)
    /\ l.doc.jtype = "object"
    /\ l.doc.choices = "one"
    /\ l.doc.delta = "object"
    /\ l.doc.content = "str"
MissingChoices(l) == IsJson(l) /\ l.doc.jtype = "object" /\ l.doc.choices = "absent"
\* JSON that parses but on which the field accesses of lines 801-805 raise:
\* a value that is no object, or a content that is no string
UnexpectedShape(l) ==
    /\ IsJson(l)
    /\ \/ l.doc.jtype # "object"
       \/ l.doc.choices = "one" /\ l.doc.delta = "object" /\ l.doc.content = "null"

\* the lines before the first position of idx, all of them if idx is empty
Before(ls, idx) ==
    IF idx = {} THEN ls
    ELSE SubSeq(ls, 1, (CHOOSE i \in idx : \A j \in idx : i <= j) - 1)

DonePositions(ls) == {i \in DOMAIN ls : IsDone(ls[i])}

RECURSIVE ChunksOf(_)
ChunksOf(ls) ==
    IF ls = <<>> THEN <<>>
    ELSE (IF CarriesContent(Head(ls))
          THEN <<Event("chunk", Head(ls).doc.text, 0)>> ELSE <<>>)
         \o ChunksOf(Tail(ls))

RECURSIVE Concat(_)
Concat(es) == IF es = <<>> THEN "" ELSE Head(es).text \o Concat(Tail(es))

\* the events of a completed stream: one chunk per content line before the
\* first [DONE], then the completion carrying their concatenation
CompletedEvents(ls) ==
    LET cs == ChunksOf(Before(ls, DonePositions(ls)))
    IN cs \o <<Event("complete", Concat(cs), 0)>>

IsDoneOrUnexpected(l) == IsDone(l) \/ UnexpectedShape(l)

\* the events of a stream whose transport does not fail: as CompletedEvents,
\* unless a line of unexpected shape comes before the first [DONE]; then
\* the chunks before that line and one error
StreamEvents(ls) ==
    LET pre == Before(ls, {i \in DOMAIN ls : IsDoneOrUnexpected(ls[i])})
    IN IF Len(pre) < Len(ls) /\ UnexpectedShape(ls[Len(pre) + 1])
       THEN ChunksOf(pre) \o <<Event("error", "TypeError", 0)>>
       ELSE CompletedEvents(ls)

NotMalformed(l) == ~IsMalformed(l)
HasChoices(l)   == ~MissingChoices(l)

Count(s, kind) ==
    Cardinality({i \in DOMAIN emitted[s] : emitted[s][i].kind = kind})

\* run() has returned, stop() was never called, the status was 200 and no
\* transport read failed
StreamedToTheEnd(s) ==
    /\ pc[s] = "done"
    /\ ~stop_requested[s]
    /\ status[s] = 200
    /\ exc[s] \notin {"RequestException", "ReadError"}

C2_NoEventAfterCancel ==
    [][\A s \in Sessions : stop_requested[s] => emitted'[s] = emitted[s]]_vars

(* C4: a session whose stop() set the flag before run() began issues no    *)
(* request and emits no event, ever.                                       *)
C4_CancelBeforeRun ==
    \A s \in Sessions :
        cancelled_in[s] = "NotStarted" =>
            /\ posts[s] = 0
            /\ conn[s] = "none"
            /\ emitted[s] = <<>>

C4_Witness ==
    /\ cancelled_in[1] = "NotStarted"
    /\ pc[1] = "done"
    /\ fg = "idle"

(* C5, as stated: a session cancelled while Requesting or Streaming does   *)
(* not end with its connection left open: once run() and stop() have both  *)
(* returned the connection is closed.                                      *)
C5_ClosedWhenCancelled ==
    \A s \in Sessions :
        (/\ pc[s] = "done"
         /\ fg = "idle"
         /\ cancelled_in[s] \in {"Requesting", "Streaming"})
        => conn[s] # "open"

(* C6, as stated: a non-cancelled session whose status is not 200 emits    *)
(* exactly one event, an error carrying the status code and the body.      *)
C6_ErrorCarriesStatus ==
    \A s \in Sessions :
        (pc[s] = "done" /\ ~stop_requested[s] /\ status[s] \notin {0, 200})
        => emitted[s] = <<Event("error", ErrorBody, status[s])>>

(* C6, amended: such a session emits exactly one event, an error, and no   *)
(* chunk and no completion; the error carries the status code and the body *)
(* when the body could be read, and the read failure otherwise.            *)
C6_OneError ==
    \A s \in Sessions :
        (pc[s] = "done" /\ ~stop_requested[s] /\ status[s] \notin {0, 200})
        => /\ Len(emitted[s]) = 1
           /\ emitted[s][1] = IF exc[s] = "none"
                              THEN Event("error", ErrorBody, status[s])
                              ELSE Event("error", "ReadError", 0)

C6_Witness ==
    /\ pc[1] = "done"
    /\ ~stop_requested[1]
    /\ status[1] = 401
    /\ emitted[1] = <<Event("error", ErrorBody, 401)>>

(* C7: a data line that fails JSON parsing yields no event and does not    *)
(* end the stream: the events of a session are those of its stream with    *)
(* the malformed lines removed, and the body is read to its last line      *)
(* unless a [DONE] line or a line of unexpected shape ended the loop.      *)
C7_MalformedSkipped ==
    \A s \in Sessions :
        StreamedToTheEnd(s) =>
            /\ emitted[s] = StreamEvents(SelectSeq(received[s], NotMalformed))
            /\ (\A i \in DOMAIN received[s] : ~IsDoneOrUnexpected(received[s][i]))
                  => remaining[s] = 0

C7_Witness ==
    /\ StreamedToTheEnd(1)
    /\ received[1] = <<DeltaLine("a"), MalformedLine, DeltaLine("b")>>
    /\ emitted[1] = <<Event("chunk", "a", 0), Event("chunk", "b", 0),
                      Event("complete", "ab", 0)>>

C3_AtMostOneActive ==
    Cardinality({s \in Sessions : Active(s)}) <= 1

IsTerminalEvent(e) == e.kind \in {"complete", "error"}

\* at most one completion or error, as the last event and only once run()
\* has returned; at most one POST
OneOutcome(s) ==
    /\ Count(s, "complete") + Count(s, "error") <= 1
    /\ \A i \in DOMAIN emitted[s] :
          IsTerminalEvent(emitted[s][i]) => i = Len(emitted[s]) /\ pc[s] = "done"
    /\ posts[s] <= 1

C10_NoKeyNoSend ==
    [][(/\ fg = "idle"
        /\ api_key = ""
        /\ \E typed \in TextChoices : send_message(typed))
       => /\ dialog' = "api_key_warning"
          /\ UNCHANGED <<thread_vars, messages, api_thread, nthreads,
                         attached_files, current_ai_bubble, send_btn, stop_btn,
                         progress_bar, queue>>]_vars

C10_Witness ==
    /\ api_key = ""
    /\ dialog = "api_key_warning"
    /\ attached_files # <<>>
    /\ nthreads = 0
    /\ messages = <<>>
    /\ send_btn /\ ~stop_btn /\ ~progress_bar


(* ------------------------------ the payload ---------------------------- *)
\* the payload of session s has been built from the history as it stands
Built(s) == pc[s] = "precheck" /\ Len(request[s]) = Len(messages)

LastIsUser == messages # <<>> /\ messages[Len(messages)].role = "user"

\* the content built for the last message, and its parts (a plain string
\* has none)
LastContent(s) == request[s][Len(request[s])].content
PartsOf(c) == IF c.multipart THEN c.parts ELSE <<>>
IsTextPart(q) == q.type = "text"
IsImagePart(q) == q.type = "image_url"

\* the attachments that are images and whose bytes could be read
Encodable(f) == f.mime_type \in {"image/png", "image/jpeg"} /\ f.readable
RECURSIVE UrlsOf(_)
UrlsOf(fs) ==
    IF fs = <<>> THEN <<>>
    ELSE <<"data:" \o Head(fs).mime_type \o ";base64,eHl6">> \o UrlsOf(Tail(fs))
EncodedUrls(fs) == UrlsOf(SelectSeq(fs, Encodable))

RECURSIVE PartUrls(_)
PartUrls(ps) == IF ps = <<>> THEN <<>> ELSE <<Head(ps).url>> \o PartUrls(Tail(ps))
ImageUrls(c) == PartUrls(SelectSeq(PartsOf(c), IsImagePart))

PartCount(s) ==
    (IF messages[Len(messages)].content # "" THEN 1 ELSE 0)
    + Len(EncodedUrls(files[s]))

(* C12: when zero or one content part results for the last user message    *)
(* its content is the plain string equal to the message text, never an     *)
(* array; it is an array, of all the parts, only when two or more result.  *)
C12_PlainUnlessTwoParts ==
    \A s \in Sessions :
        (Built(s) /\ LastIsUser) =>
            LET c == LastContent(s) IN
            /\ PartCount(s) <= 1 => c = Plain(messages[Len(messages)].content)
            /\ PartCount(s) >= 2 => c.multipart /\ Len(c.parts) = PartCount(s)

C12_Witness ==
    /\ Built(1)
    /\ messages = <<[role |-> "assistant", content |-> "hi"],
                    [role |-> "user", content |-> "hi"]>>
    /\ files[1] = <<AttachedFile("q.png", "image/png", "xyz", FALSE)>>
    /\ LastContent(1) = Plain("hi")

(* --------------------------- model information ------------------------ *)
Range(seq) == {seq[i] : i \in DOMAIN seq}

\* a call of get_model_info has returned
Returned == ret.via # "none"

\* the age of the entry the call found
AgeFound == ret.at - ret.before.cached_at

(* C13: a call that finds an entry younger than seven days returns the     *)
(* stored info without a network request; a call that finds an entry seven *)
(* days old or older does not return it from the cache: it returns what a  *)
(* request just listed, or the static fallback for the id.                 *)
C13_FreshOrRefetched ==
    Returned =>
        /\ (ret.before.present /\ AgeFound < 7 * 24 * 3600) =>
              /\ ret.via = "cache"
              /\ ret.info = ret.before.info
              /\ ~ret.requested
        /\ (ret.before.present /\ AgeFound >= 7 * 24 * 3600) =>
              \/ ret.via = "fetch" /\ ret.requested /\ ret.info = ret.listed
              \/ /\ ret.via = "default"
                 /\ ret.info = get_default_model_info(ret.model_id)

C13_Witness ==
    /\ ret.before.present
    /\ ret.before.cached_at = 1
    /\ ret.at = 7 * 24 * 3600 + 1
    /\ ret.via = "fetch"
    /\ gets = 1

KindsOk(info) ==
    /\ "text" \in Range(info.input_types)
    /\ Range(info.input_types) \subseteq {"text", "image"}

(* C14: while the manager has no key no step issues a network request,     *)
(* whatever the id and the cache hold, and what a call returns has         *)
(* {text} within its input kinds and these within {text, image}.           *)
C14_NoKeyNoRequest ==
    [][mgr_key = "" =>
          /\ gets' = gets
          /\ ret' # ret => (~ret'.requested /\ KindsOk(ret'.info))]_vars

C14_Witness ==
    /\ ret.key = ""
    /\ ret.via = "default"
    /\ ret.before.present
    /\ ret.model_id = IdClaudeOpus
    /\ ret.info.input_types = <<"text", "image">>
    /\ gets = 0

(* C15, as stated: under the fallback every model id that contains         *)
(* "claude-3" in any letter case gets image among its input kinds.         *)
C15_Claude3HasImage ==
    (/\ ret.via = "default"
     /\ Contains(<<"c", "l", "a", "u", "d", "e", "-", "3">>, lower(ret.model_id)))
    => "image" \in Range(ret.info.input_types)

(* C16, as stated: after a failed fetch and after a failed save of the     *)
(* cache alike, the call returns the static fallback for the id.           *)
C16_FallbackOnAnyFailure ==
    (/\ Returned
     /\ ret.requested
     /\ ret.failure # "none" \/ ret.saved \in {"open_failed", "dump_failed"})
    => ret.info = get_default_model_info(ret.model_id)

(* C16, amended: every call returns; after a failed fetch (request error,  *)
(* status other than 200, id not listed) it returns the static fallback    *)
(* for the id; after a fetch that listed the id it returns the fetched     *)
(* info whether or not the cache file could be written.                    *)
C16_Recovered ==
    (Returned /\ ret.requested) =>
        /\ ret.failure # "none" =>
              /\ ret.via = "default"
              /\ ret.info = get_default_model_info(ret.model_id)
        /\ ret.failure = "none" =>
              /\ ret.via = "fetch"
              /\ ret.saved \in SaveOutcomes
              /\ ret.info = ret.listed
              /\ ret.info.description = "catalog"

C16_Witness ==
    /\ ret.requested
    /\ ret.saved = "dump_failed"
    /\ ret.via = "fetch"
    /\ ret.info.description = "catalog"
    /\ cache[ret.model_id].present
    /\ ~cache_file[ret.model_id].present

(* ------------------------------ repeated stop ------------------------- *)
\* what a completed call of stop() leaves behind: the flag set, and the
\* response closed if there is one
Stopped(s) ==
    /\ stop_requested[s]
    /\ response[s] = "set" => conn[s] = "closed"

\* a step of a call of stop() by the caller of the session
StopStep == fg' # fg

HistoryAtSend == <<[role |-> "user", content |-> "hi"]>>

(* C18, as stated: the messages a worker serializes are the history as it  *)
(* was when send_message started the session, whatever the foreground      *)
(* thread does to the history meanwhile.                                   *)
C18_PayloadIsHistoryAtSend ==
    (pc[1] \in {"precheck", "post"} \/ posts[1] > 0) =>
        request[1] = BuildApiMessages(HistoryAtSend, files[1])

(* --------------------------- after stop_inference ---------------------- *)
\* the foreground thread takes the next queued signal
Delivery == queue # <<>> /\ queue' = Tail(queue) /\ fg = "idle"

(* C19, as stated: a signal of a session that stop_inference has stopped   *)
(* adds no assistant message to the history and changes no bubble's text   *)
(* when it is delivered.                                                   *)
C19_StoppedSessionIsSilent ==
    [][(Delivery /\ stop_requested[Head(queue).session]) =>
          /\ messages' = messages
          /\ current_ai_bubble'.text = current_ai_bubble.text]_vars

(* --------------------------- prompt cancellation ----------------------- *)
\* the flag is set while the session is Requesting or Streaming
CancelledInFlight(s) ==
    stop_requested[s] /\ pc[s] \in RequestingPcs \cup StreamingPcs

(* C20: once the flag is set, a read of the response that completes is not *)
(* followed by the processing of its line: from the read and from the head *)
(* of the loop the worker never enters the body and the buffer keeps its   *)
(* text; and, with the worker scheduled and every read returning, ending   *)
(* or raising, a session cancelled in flight reaches the end of run() with *)
(* the flag set.                                                           *)
C20_CancelStopsReading ==
    /\ [][\A s \in Sessions :
             (stop_requested[s] /\ pc[s] \in {"posting", "iter", "loopcheck"}) =>
                /\ full_message'[s] = full_message[s]
                /\ pc'[s] # "process"]_vars
    /\ \A s \in Sessions :
          CancelledInFlight(s) ~> (pc[s] = "done" /\ stop_requested[s])

C20_Witness ==
    /\ cancelled_in[1] = "Streaming"
    /\ pc[1] = "done"
    /\ Len(received[1]) = 2
    /\ received[1][2] = DeltaLine("b")
    /\ full_message[1] = "a"
    /\ emitted[1] = <<Event("chunk", "a", 0)>>

SendStarts == nthreads' = nthreads + 1

(* C22: a send that starts a session hands the pending attachments to that *)
(* session and leaves the pending list empty; no other step changes the    *)
(* attachments of any session; and every image part of a payload encodes   *)
(* an attachment of the session that built it.                             *)
C22_AttachmentsOfOneSend ==
    /\ [][SendStarts =>
             /\ attached_files' = <<>>
             /\ files'[nthreads'] = attached_files
             /\ \A s \in Sessions \ {nthreads'} : files'[s] = files[s]]_vars
    /\ [][~SendStarts => files' = files]_vars
    /\ [](\A s \in Sessions : \A i \in DOMAIN request[s] :
             \A j \in DOMAIN ImageUrls(request[s][i].content) :
                 ImageUrls(request[s][i].content)[j]
                     \in Range(EncodedUrls(files[s])))

\* the first send carried an image and was posted; the second send carried
\* none, and its payload has no array content
C22_Witness ==
    /\ files[1] # <<>>
    /\ posts[1] > 0
    /\ \E i \in DOMAIN request[1] : request[1][i].content.multipart
    /\ files[2] = <<>>
    /\ pc[2] = "precheck"
    /\ request[2] # <<>>
    /\ \A i \in DOMAIN request[2] : ~request[2][i].content.multipart
    /\ attached_files = <<>>

(* ------------------------ the two capability tests --------------------- *)
\* whether an info dict lists image among its input types
HasImage(info) == "image" \in Range(info.input_types)

(* C23, as stated: for every model id the info processed from a catalog    *)
(* entry with that id, whose display name contains no keyword, lists image *)
(* exactly when the static fallback for the id lists image.                *)
C23_SameImageDecision ==
    /\ (ret.via = "fetch" /\ ret.info.name = NamePlain) =>
          (HasImage(ret.info) <=> HasImage(get_default_model_info(ret.model_id)))
    /\ ret.via = "default" =>
          (HasImage(ret.info) <=>
              HasImage(process_model_info(CatalogEntry(ret.model_id, NamePlain))))

(* ----------------------------- text is always in --------------------- *)
(* C24: whatever a call of get_model_info returns (a stored entry, the     *)
(* info processed from the catalog, or the static fallback) lists text     *)
(* among its input types, and so does every entry of the cache and of the  *)
(* cache file, after any gets, refreshes, failures and reloads.            *)
C24_TextAlwaysAccepted ==
    /\ Returned => "text" \in Range(ret.info.input_types)
    /\ \A id \in ModelIds :
          /\ cache[id].present => "text" \in Range(cache[id].info.input_types)
          /\ cache_file[id].present =>
                "text" \in Range(cache_file[id].info.input_types)

\* an entry fetched in this run, for a vision model, is served from the cache
C24_Witness ==
    /\ ret.via = "cache"
    /\ gets = 1
    /\ ret.before.cached_at = ret.at
    /\ ret.info.input_types = <<"text", "image">>

(* -------------------------- the fallback stores nothing ---------------- *)
\* a step of get_model_info that returns the static fallback
FallbackStep == ret'.via = "default" /\ (ret' # ret \/ gets' # gets)

(* C28: a call of get_model_info that ends in the static fallback leaves   *)
(* the cache and the cache file as they were: the fallback is not stored   *)
(* and the entry found is neither refreshed nor removed; so after it the   *)
(* id still has no entry younger than seven days, and the next call for it *)
(* goes to the fetch again.                                                *)
C28_FallbackStoresNothing ==
    /\ [][FallbackStep => UNCHANGED <<cache, cache_file>>]_vars
    /\ [](ret.via = "default" => ~IsFresh(cache[ret.model_id], now))

\* a fetch for an id with an entry older than seven days failed: the entry
\* is still in the cache and in the file
C28_Witness ==
    /\ ret.via = "default"
    /\ ret.requested
    /\ ret.before.present
    /\ cache[ret.model_id] = ret.before
    /\ cache_file[ret.model_id] = ret.before
    /\ ret.info # ret.before.info

(* ----------------------------- the two buttons ------------------------ *)
\* a worker is at work: its thread is running, or the completion or error
\* it emitted has not been handled yet
Working ==
    \/ \E s \in Sessions : isRunning(s)
    \/ \E i \in DOMAIN queue : IsTerminalEvent(queue[i].event)

\* what the window offers (lines 1411-1416, 1460-1462, 1472-1474, 1599-1602)
OffersStop == stop_btn /\ progress_bar /\ ~send_btn
OffersSend == send_btn /\ ~stop_btn /\ ~progress_bar

\* a session has issued its POST and run() has not returned
InFlight == \E s \in Sessions : Active(s)

(* C25, as stated: between two handlers of the window, the stop button and *)
(* the progress bar are shown and the send button hidden exactly when a    *)
(* worker session is still Requesting or Streaming, and the send button is *)
(* shown exactly when no worker is active. The time before the POST and    *)
(* the time a last signal waits in the queue are allowed either way.       *)
C25_ButtonsFollowWorker ==
    fg = "idle" =>
        /\ InFlight => OffersStop
        /\ OffersStop => Working
        /\ OffersSend => ~InFlight
        /\ ~Working => OffersSend

(* ---------------------------- back to idle ----------------------------- *)
(* C26: with the workers scheduled, every read of the transport returning, *)
(* ending or raising, and the event loop delivering the queued signals,    *)
(* every session a send has started is followed by a state in which its    *)
(* run() has returned and the window offers send again, whether the        *)
(* session completes, fails or is stopped and however the click on stop    *)
(* interleaves with the worker's last signal.                              *)
C26_SendReturnsToIdle ==
    \A s \in Sessions :
        (pc[s] = "start") ~> (pc[s] = "done" /\ fg = "idle" /\ OffersSend)

\* a session was stopped after its worker had emitted its completion, and
\* the window offers send
C26_Witness ==
    /\ pc[1] = "done"
    /\ stop_requested[1]
    /\ Count(1, "complete") = 1
    /\ queue = <<>>
    /\ fg = "idle"
    /\ OffersSend

(* ----------------------- the history after a failure ------------------ *)
\* the delivery of error_occurred to on_error_occurred
ErrorStep ==
    /\ fg = "idle"
    /\ queue # <<>>
    /\ Head(queue).event.kind = "error"
    /\ queue' = Tail(queue)

\* a step of stop_inference, or one taken while it waits
DuringStop == fg # "idle" \/ fg' # "idle"

\* lines 1464-1474 and 1588-1602 assign nothing to self.messages
HandlersKeepHistory ==
    [][(ErrorStep \/ DuringStop) => messages' = messages]_vars

\* the first session has failed or has been stopped, and a second send has
\* built its payload
SentAfterFailure ==
    /\ stop_requested[1] \/ Count(1, "error") = 1
    /\ pc[2] \in {"precheck", "post"} \/ posts[2] > 0

(* C27, as stated: on_error_occurred and stop_inference leave the history  *)
(* as it is (the user message stays, no assistant message is added), so    *)
(* the send that follows transmits that user message followed directly by  *)
(* the new user message.                                                   *)
C27_FailureKeepsHistory ==
    /\ HandlersKeepHistory
    /\ [](SentAfterFailure =>
             /\ Len(request[2]) >= 2
             /\ request[2][1].role = "user"
             /\ request[2][2].role = "user")

(* ------------------------- the key and the file ----------------------- *)
\* the fields of the file that hold one string
StringFields == {"base_url", "last_selected_model"}

(* C29: after any sequence of writes by ConfigDialog.save_config,           *)
(* save_custom_model, remove_custom_model and save_last_selected_model the  *)
(* configuration file has no api_key entry and no field holding a key; the  *)
(* key the window works with is the one the keyring holds.                  *)
C29_NoKeyInConfigFile ==
    /\ config_file.exists =>
          /\ "api_key" \notin DOMAIN config_file.data
          /\ \A k \in StringFields \cap DOMAIN config_file.data :
                config_file.data[k] \notin ApiKeys \ {""}
    /\ api_key = keyring

\* a key is set, and the file has been written by every kind of writer: it
\* holds a base URL typed in the dialog, a last selected model and the one
\* custom model left by a removal
C29_Witness ==
    /\ keyring = "sk-key"
    /\ api_key = "sk-key"
    /\ config_file.exists
    /\ config_file.data["base_url"] # DefaultBaseUrl
    /\ "last_selected_model" \in DOMAIN config_file.data
    /\ config_file.data["last_selected_model"] = "my/model-a"
    /\ Len(config_file.data["custom_models"]) = 1
    /\ config_op = "remove_custom_model"
    /\ "api_key" \notin DOMAIN config_file.data

(* C30, as stated: ConfigDialog.save_config changes only the stored key and *)
(* the base URL: the custom models and the last selected model the file     *)
(* held before the save are read from it, unchanged, after the save (a     *)
(* last selected model of None and a missing one read the same).            *)
C30_SaveConfigKeepsTheRest ==
    [][(config_op' = "save_config" /\ config_file.exists) =>
          /\ config_file'.exists
          /\ Get(config_file'.data, "custom_models", <<>>) =
                Get(config_file.data, "custom_models", <<>>)
          /\ Get(config_file'.data, "last_selected_model", PyNone) =
                Get(config_file.data, "last_selected_model", PyNone)]_vars

====
